---- MODULE Spec2Model ----
(***************************************************************************)
(* Position arithmetic of the fault dispute game (op-challenger,            *)
(* game/fault/types).  The sources hold three revisions of position.go:    *)
(*   "U"  position.go            depth is PositionDepth (uint64)           *)
(*   "D"  position_test.go:253.. depth is the Depth struct (checked ops)   *)
(*   "I"  unnamed/part_000       depth is int, NewPosition validates       *)
(* Each revision is modelled by its own definitions (suffix _U, _D, _I);   *)
(* the variable ver says which revision the process was built from.        *)
(*                                                                         *)
(* Machine words are scaled: a Go uint64/int/uint has WordBits bits here   *)
(* instead of 64, so that wrap-around is reachable within TLC's integers.  *)
(* big.Int values are plain integers; a nil *big.Int is the value Nil.     *)
(***************************************************************************)
EXTENDS Integers, Sequences, FiniteSets, TLC

VARIABLES ver, pos, last, navigated, claims

vars == <<ver, pos, last, navigated, claims>>

\* ---------------------------------------------------------------- bounds
\* Width of a machine word (stands for 64).
WordBits == 4
\* Deepest tree level the enumerated input positions sit at (besides the
\* positions at the two largest representable depths).
MaxDepth == 4
\* Largest number of claims appended to the game's claim set.
MaxClaims == 2
\* Largest shift count for which big.Int.Lsh / Exp of a non-zero operand can
\* still allocate its result; beyond it the allocation panics.
AllocLimit == 6

\* ------------------------------------------------------- machine integers
WordMod == 2 ^ WordBits
\* math.MaxUint64 / math.MaxUint
MaxUint == WordMod - 1
\* math.MaxInt
MaxInt == (2 ^ (WordBits - 1)) - 1
\* unsigned wrap-around of uint64 arithmetic
UintWrap(n) == n % WordMod
\* signed wrap-around of int arithmetic, and the conversion int(uint64)
IntWrap(n) == LET m == n % WordMod IN IF m > MaxInt THEN m - WordMod ELSE m

\* ------------------------------------------------------------ result values
Nil == -1
\* Position{}: the zero value, depth 0 and a nil index
ZeroPosition == [depth |-> 0, indexAtDepth |-> Nil]
RPos(d, i) == [kind |-> "Position", pos |-> [depth |-> d, indexAtDepth |-> i], val |-> 0]
RInt(n) == [kind |-> "Int", pos |-> ZeroPosition, val |-> n]
RBool(b) == [kind |-> "Bool", pos |-> ZeroPosition, val |-> IF b THEN 1 ELSE 0]
\* a returned error value: (Position{}, err)
RError == [kind |-> "Error", pos |-> ZeroPosition, val |-> 0]
\* ErrPositionDepthTooSmall
ErrPositionDepthTooSmall == [kind |-> "Error", pos |-> ZeroPosition, val |-> 1]
\* a run-time panic (explicit panic(), nil dereference, division by zero,
\* makeslice: len out of range)
RPanic == [kind |-> "Panic", pos |-> ZeroPosition, val |-> 0]
RNone == [kind |-> "None", pos |-> ZeroPosition, val |-> 0]

\* evaluate F on the value of r, or pass r's failure on
ThenInt(r, F(_)) == IF r.kind = "Int" THEN F(r.val) ELSE r
ThenPos(r, F(_)) == IF r.kind = "Position" THEN F(r.pos) ELSE r

\* ------------------------------------------------------------------ math/big
\* new(big.Int).Lsh(x, s): x * 2^s; the result has s more bits than x
Lsh(x, s) ==
  IF x = Nil THEN RPanic
  ELSE IF x = 0 THEN RInt(0)
  ELSE IF s > AllocLimit THEN RPanic
  ELSE RInt(x * (2 ^ s))

\* new(big.Int).Rsh(x, 1)
Rsh1(x) == x \div 2

\* new(big.Int).Not(x)
Not(x) == (-x) - 1

RECURSIVE AndNotNat(_, _)
\* a AND NOT m, both non-negative, bit by bit
AndNotNat(a, m) ==
  IF a = 0 THEN 0
  ELSE (IF a % 2 = 1 /\ m % 2 = 0 THEN 1 ELSE 0) + 2 * AndNotNat(a \div 2, m \div 2)

RECURSIVE AndNat(_, _)
AndNat(a, b) ==
  IF a = 0 \/ b = 0 THEN 0
  ELSE (IF a % 2 = 1 /\ b % 2 = 1 THEN 1 ELSE 0) + 2 * AndNat(a \div 2, b \div 2)

\* new(big.Int).And(x, y) for x >= 0 (two's complement view of a negative y)
And(x, y) == IF y < 0 THEN AndNotNat(x, (-y) - 1) ELSE AndNat(x, y)

RECURSIVE Or(_, _)
\* new(big.Int).Or(a, b) for non-negative a, b
Or(a, b) ==
  IF a = 0 THEN b
  ELSE IF b = 0 THEN a
  ELSE (IF a % 2 = 1 \/ b % 2 = 1 THEN 1 ELSE 0) + 2 * Or(a \div 2, b \div 2)

\* new(big.Int).Mod(x, y): Euclidean modulus, panics on y = 0 and on nil x
Mod(x, y) ==
  IF x = Nil THEN RPanic
  ELSE IF y = 0 THEN RPanic
  ELSE RInt(x % (IF y < 0 THEN -y ELSE y))

\* ------------------------------------------------------------- shared code
boolToInt(b) == IF b THEN 1 ELSE 0

RECURSIVE bigMSBLoop(_, _)
\* the loop of bigMSB: for ; x != 0; out++ { x = x >> 1 }
bigMSBLoop(x, out) == IF x = 0 THEN out ELSE bigMSBLoop(Rsh1(x), out + 1)

\* =================================================== revision D (Depth struct)
\* src/op-challenger/game/fault/types/position_test.go:253-463
NewDepth(d) == d

IsRoot(d) == d = 0

\* Depth.AsUint: uint is as wide as uint64, so the guard never fires
AsUint(d) == IF d > MaxUint THEN RPanic ELSE RInt(d)

\* Depth.MaxGIndex: 1 << d as a big.Int
MaxGIndex(d) == Lsh(1, d)

OneLevelShallower(d) == IF IsRoot(d) THEN RPanic ELSE RInt(NewDepth(d - 1))

OneLevelDeeper(d) == IF d = MaxUint THEN RPanic ELSE RInt(NewDepth(d + 1))

DeeperThan(d, other) == d > other

\* Depth.RelativeDepth: panics when ancestor is deeper than d, and otherwise
\* returns ancestor.val - d.val in uint64 arithmetic
RelativeDepth(d, ancestor) ==
  IF DeeperThan(ancestor, d) THEN RPanic
  ELSE RInt(NewDepth(UintWrap(ancestor - d)))

\* bigMSB without the final out - 1
bigMSB_D_NoDecrement(x) ==
  IF x = 0 THEN NewDepth(0) ELSE NewDepth(UintWrap(bigMSBLoop(x, 0)))

bigMSB_D(x) == IF x = 0 THEN NewDepth(0) ELSE NewDepth(UintWrap(bigMSBLoop(x, 0) - 1))

NewPosition_D(depth, indexAtDepth) == RPos(depth, indexAtDepth)

NewPositionFromGIndex_D(x) ==
  LET depth == bigMSB_D(x)
  IN ThenInt(AsUint(depth), LAMBDA u :
       ThenInt(Lsh(1, u), LAMBDA m :
         NewPosition_D(depth, And(x, Not(m)))))

MoveRight_D(p) ==
  IF p.indexAtDepth = Nil THEN RPanic
  ELSE RPos(p.depth, p.indexAtDepth + 1)

RelativeToAncestorAtDepth_D(p, ancestor) ==
  IF DeeperThan(ancestor, p.depth) THEN ErrPositionDepthTooSmall
  ELSE ThenInt(RelativeDepth(p.depth, ancestor), LAMBDA newPosDepth :
         ThenInt(MaxGIndex(newPosDepth), LAMBDA m :
           ThenInt(Mod(p.indexAtDepth, m), LAMBDA newIndexAtDepth :
             NewPosition_D(newPosDepth, newIndexAtDepth))))

Depth_D(p) == p.depth

IndexAtDepth_D(p) == IF p.indexAtDepth = Nil THEN 0 ELSE p.indexAtDepth

\* common.Big0.Cmp(p.indexAtDepth) dereferences the index
IsRootPosition_D(p) ==
  IF ~IsRoot(p.depth) THEN RBool(FALSE)
  ELSE IF p.indexAtDepth = Nil THEN RPanic
  ELSE RBool(p.indexAtDepth = 0)

lshIndex_D(p, amount) ==
  ThenInt(AsUint(amount), LAMBDA u : Lsh(IndexAtDepth_D(p), u))

TraceIndex_D(p, maxDepth) ==
  ThenInt(RelativeDepth(maxDepth, Depth_D(p)), LAMBDA rd :
    ThenInt(AsUint(rd), LAMBDA u :
      ThenInt(Lsh(1, u), LAMBDA one :
        ThenInt(lshIndex_D(p, rd), LAMBDA l :
          RInt(Or(l, one - 1))))))

move_D(p, right) ==
  ThenInt(OneLevelDeeper(p.depth), LAMBDA d :
    ThenInt(lshIndex_D(p, NewDepth(1)), LAMBDA l :
      RPos(d, Or(l, boolToInt(right)))))

parentIndexAtDepth_D(p) == IndexAtDepth_D(p) \div 2

\* RightOf with the comparison inverted
RightOf_D_Equal(p, parent) ==
  RBool(parentIndexAtDepth_D(p) = IndexAtDepth_D(parent))

RightOf_D(p, parent) == RBool(parentIndexAtDepth_D(p) # IndexAtDepth_D(parent))

parent_D(p) ==
  ThenInt(OneLevelShallower(p.depth), LAMBDA d :
    RPos(d, parentIndexAtDepth_D(p)))

Attack_D(p) == move_D(p, FALSE)

\* Defend that ends on the right child instead of the left one
Defend_D_RightRight(p) ==
  ThenPos(ThenPos(parent_D(p), LAMBDA q : move_D(q, TRUE)),
          LAMBDA q : move_D(q, TRUE))

Defend_D(p) ==
  ThenPos(ThenPos(parent_D(p), LAMBDA q : move_D(q, TRUE)),
          LAMBDA q : move_D(q, FALSE))

\* d64 > math.MaxUint never holds where uint has 64 bits
ToGIndex_D(p) ==
  LET d64 == p.depth
  IN IF d64 > MaxUint THEN RPanic
     ELSE ThenInt(Lsh(1, d64), LAMBDA m : RInt(Or(m, IndexAtDepth_D(p))))

\* ========================================= revision U (PositionDepth uint64)
\* src/op-challenger/game/fault/types/position.go:1-150
\* the Go expression 1 << n of type int: bits shifted out are lost
ShlInt(n) == IF n >= WordBits THEN 0 ELSE IntWrap(2 ^ n)

bigMSB_U(x) == IF x = 0 THEN 0 ELSE UintWrap(bigMSBLoop(x, 0) - 1)

NewPosition_U(depth, indexAtDepth) == RPos(depth, indexAtDepth)

\* NewPositionFromGIndex that masks with the bit instead of its complement
NewPositionFromGIndex_U_KeepMSB(x) ==
  LET depth == bigMSB_U(x)
  IN ThenInt(Lsh(1, depth), LAMBDA m :
       NewPosition_U(depth, And(x, m)))

NewPositionFromGIndex_U(x) ==
  LET depth == bigMSB_U(x)
  IN ThenInt(Lsh(1, depth), LAMBDA m :
       NewPosition_U(depth, And(x, Not(m))))

MoveRight_U(p) ==
  IF p.indexAtDepth = Nil THEN RPanic
  ELSE RPos(p.depth, p.indexAtDepth + 1)

\* RelativeToAncestorAtDepth whose depth check is off by one
RelativeToAncestorAtDepth_U_OffByOne(p, ancestor) ==
  IF ancestor > p.depth + 1 THEN ErrPositionDepthTooSmall
  ELSE LET newPosDepth == UintWrap(p.depth - ancestor)
           nodesAtDepth == ShlInt(newPosDepth)
       IN ThenInt(Mod(p.indexAtDepth, nodesAtDepth), LAMBDA newIndexAtDepth :
            NewPosition_U(newPosDepth, newIndexAtDepth))

RelativeToAncestorAtDepth_U(p, ancestor) ==
  IF ancestor > p.depth THEN ErrPositionDepthTooSmall
  ELSE LET newPosDepth == UintWrap(p.depth - ancestor)
           nodesAtDepth == ShlInt(newPosDepth)
       IN ThenInt(Mod(p.indexAtDepth, nodesAtDepth), LAMBDA newIndexAtDepth :
            NewPosition_U(newPosDepth, newIndexAtDepth))

Depth_U(p) == p.depth

IndexAtDepth_U(p) == IF p.indexAtDepth = Nil THEN 0 ELSE p.indexAtDepth

IsRootPosition_U(p) ==
  IF p.depth # 0 THEN RBool(FALSE)
  ELSE IF p.indexAtDepth = Nil THEN RPanic
  ELSE RBool(p.indexAtDepth = 0)

lshIndex_U(p, amount) == Lsh(IndexAtDepth_U(p), amount)

\* rd := maxDepth - p.depth is a uint64 subtraction
TraceIndex_U(p, maxDepth) ==
  LET rd == UintWrap(maxDepth - p.depth)
  IN ThenInt(Lsh(1, rd), LAMBDA one :
       ThenInt(lshIndex_U(p, rd), LAMBDA l :
         RInt(Or(l, one - 1))))

\* move that ors the child bit into the unshifted index
move_U_NoShift(p, right) ==
  RPos(UintWrap(p.depth + 1), Or(IndexAtDepth_U(p), boolToInt(right)))

\* depth: p.depth + 1 is a uint64 addition
move_U(p, right) ==
  ThenInt(lshIndex_U(p, 1), LAMBDA l :
    RPos(UintWrap(p.depth + 1), Or(l, boolToInt(right))))

parentIndexAtDepth_U(p) == IndexAtDepth_U(p) \div 2

RightOf_U(p, parent) == RBool(parentIndexAtDepth_U(p) # IndexAtDepth_U(parent))

\* depth: p.depth - 1 is a uint64 subtraction
parent_U(p) == RPos(UintWrap(p.depth - 1), parentIndexAtDepth_U(p))

Attack_U(p) == move_U(p, FALSE)

Defend_U(p) ==
  ThenPos(ThenPos(parent_U(p), LAMBDA q : move_U(q, TRUE)),
          LAMBDA q : move_U(q, FALSE))

ToGIndex_U(p) ==
  ThenInt(Lsh(1, p.depth), LAMBDA m : RInt(Or(m, IndexAtDepth_U(p))))

\* ================================================== revision I (int depth)
\* src/unnamed/part_000
bigMSB_I(x) == IF x = 0 THEN 0 ELSE IntWrap(bigMSBLoop(x, 0) - 1)

\* NewPosition validates; bigDepth.Exp(2, depth) has depth + 1 bits
NewPosition_I(depth, indexAtDepth) ==
  IF depth < 0 THEN RError
  ELSE IF indexAtDepth = Nil \/ indexAtDepth < 0 THEN RError
  ELSE IF depth > AllocLimit THEN RPanic
  ELSE LET maxIndex == (2 ^ depth) - 1
       IN IF indexAtDepth > maxIndex THEN RError
          ELSE RPos(depth, indexAtDepth)

NewPositionFromGIndex_I(x) ==
  LET depth == bigMSB_I(x)
  IN ThenInt(Lsh(1, UintWrap(depth)), LAMBDA m :
       NewPosition_I(depth, And(x, Not(m))))

Depth_I(p) == p.depth

\* no nil default in this revision
IndexAtDepth_I(p) == p.indexAtDepth

\* p.IndexAtDepth().Cmp(other.IndexAtDepth()) dereferences both
Equal_I(p, other) ==
  IF Depth_I(p) # Depth_I(other) THEN RBool(FALSE)
  ELSE IF IndexAtDepth_I(p) = Nil \/ IndexAtDepth_I(other) = Nil THEN RPanic
  ELSE RBool(IndexAtDepth_I(p) = IndexAtDepth_I(other))

lshIndex_I(p, amount) == Lsh(IndexAtDepth_I(p), UintWrap(amount))

LeftChild_I(p) ==
  ThenInt(lshIndex_I(p, 1), LAMBDA l :
    NewPosition_I(IntWrap(p.depth + 1), Or(l, 0)))

RightChild_I(p) ==
  ThenInt(lshIndex_I(p, 1), LAMBDA l :
    NewPosition_I(IntWrap(p.depth + 1), Or(l, 1)))

RelativeToAncestorAtDepth_I(p, ancestor) ==
  IF ancestor > UintWrap(p.depth) THEN ErrPositionDepthTooSmall
  ELSE LET newPosDepth == UintWrap(UintWrap(p.depth) - ancestor)
           nodesAtDepth == ShlInt(newPosDepth)
       IN ThenInt(Mod(p.indexAtDepth, nodesAtDepth), LAMBDA newIndexAtDepth :
            NewPosition_I(IntWrap(newPosDepth), newIndexAtDepth))

IsRootPosition_I(p) ==
  IF p.depth # 0 THEN RBool(FALSE)
  ELSE IF p.indexAtDepth = Nil THEN RPanic
  ELSE RBool(p.indexAtDepth = 0)

\* rd := maxDepth - p.depth is an int; uint(rd) reinterprets a negative rd
TraceIndex_I(p, maxDepth) ==
  LET rd == IntWrap(maxDepth - p.depth)
  IN ThenInt(Lsh(1, UintWrap(rd)), LAMBDA one :
       ThenInt(lshIndex_I(p, rd), LAMBDA l :
         RInt(Or(l, one - 1))))

parentIndexAtDepth_I(p) ==
  IF IndexAtDepth_I(p) = Nil THEN RPanic ELSE RInt(IndexAtDepth_I(p) \div 2)

RightOf_I(p, parent) ==
  ThenInt(parentIndexAtDepth_I(p), LAMBDA i :
    IF IndexAtDepth_I(parent) = Nil THEN RPanic
    ELSE RBool(i # IndexAtDepth_I(parent)))

parent_I(p) ==
  ThenInt(parentIndexAtDepth_I(p), LAMBDA i :
    NewPosition_I(IntWrap(p.depth - 1), i))

Attack_I(p) == LeftChild_I(p)

\* Defend that descends through the parent's left child
Defend_I_LeftFirst(p) ==
  ThenPos(ThenPos(parent_I(p), LAMBDA q : LeftChild_I(q)),
          LAMBDA rc : LeftChild_I(rc))

Defend_I(p) ==
  ThenPos(ThenPos(parent_I(p), LAMBDA q : RightChild_I(q)),
          LAMBDA rc : LeftChild_I(rc))

ToGIndex_I(p) ==
  ThenInt(Lsh(1, UintWrap(p.depth)), LAMBDA m :
    IF IndexAtDepth_I(p) = Nil THEN RPanic
    ELSE RInt(Or(m, IndexAtDepth_I(p))))

\* ======================================================= the three revisions
Versions == {"U", "D", "I"}

NewPosition(v, depth, indexAtDepth) ==
  CASE v = "U" -> NewPosition_U(depth, indexAtDepth)
    [] v = "D" -> NewPosition_D(depth, indexAtDepth)
    [] v = "I" -> NewPosition_I(depth, indexAtDepth)

NewPositionFromGIndex(v, x) ==
  CASE v = "U" -> NewPositionFromGIndex_U(x)
    [] v = "D" -> NewPositionFromGIndex_D(x)
    [] v = "I" -> NewPositionFromGIndex_I(x)

RelativeToAncestorAtDepth(v, p, ancestor) ==
  CASE v = "U" -> RelativeToAncestorAtDepth_U(p, ancestor)
    [] v = "D" -> RelativeToAncestorAtDepth_D(p, ancestor)
    [] v = "I" -> RelativeToAncestorAtDepth_I(p, ancestor)

IsRootPosition(v, p) ==
  CASE v = "U" -> IsRootPosition_U(p)
    [] v = "D" -> IsRootPosition_D(p)
    [] v = "I" -> IsRootPosition_I(p)

TraceIndex(v, p, maxDepth) ==
  CASE v = "U" -> TraceIndex_U(p, maxDepth)
    [] v = "D" -> TraceIndex_D(p, maxDepth)
    [] v = "I" -> TraceIndex_I(p, maxDepth)

RightOf(v, p, parent) ==
  CASE v = "U" -> RightOf_U(p, parent)
    [] v = "D" -> RightOf_D(p, parent)
    [] v = "I" -> RightOf_I(p, parent)

Attack(v, p) ==
  CASE v = "U" -> Attack_U(p)
    [] v = "D" -> Attack_D(p)
    [] v = "I" -> Attack_I(p)

Defend(v, p) ==
  CASE v = "U" -> Defend_U(p)
    [] v = "D" -> Defend_D(p)
    [] v = "I" -> Defend_I(p)

ToGIndex(v, p) ==
  CASE v = "U" -> ToGIndex_U(p)
    [] v = "D" -> ToGIndex_D(p)
    [] v = "I" -> ToGIndex_I(p)

\* MoveRight exists in revisions U and D only
MoveRight(v, p) ==
  CASE v = "U" -> MoveRight_U(p)
    [] v = "D" -> MoveRight_D(p)

\* ------------------------------------------------------- TestRelativeMoves
\* the move sequences of TestRelativeMoves
tests ==
  << <<"Attack">>, <<"Defend">>, <<"Attack", "Attack">>,
     <<"Defend", "Defend">>, <<"Attack", "Defend">>, <<"Defend", "Attack">> >>

Move(v, m, p) == IF m = "Attack" THEN Attack(v, p) ELSE Defend(v, p)

\* test(pos): the moves of t applied left to right
ApplyTest(v, t, p) ==
  IF Len(t) = 1 THEN Move(v, t[1], p)
  ELSE ThenPos(Move(v, t[1], p), LAMBDA q : Move(v, t[2], q))

\* start := test(relative); start.RelativeToAncestorAtDepth(relative.Depth());
\* the generalized index of the relative position
RelativeMove(v, t, relative) ==
  ThenPos(ApplyTest(v, t, relative), LAMBDA start :
    ThenPos(RelativeToAncestorAtDepth(v, start, relative.depth), LAMBDA r :
      ToGIndex(v, r)))

\* expectedRelativePosition := test(NewPositionFromGIndex(1)), as a gindex
ExpectedRelativeMove(v, t) ==
  ThenPos(NewPositionFromGIndex(v, 1), LAMBDA root :
    ThenPos(ApplyTest(v, t, root), LAMBDA e : ToGIndex(v, e)))

\* ------------------------------------------------------------ claim relations
\* a claim without a parent
NoParent == [depth |-> -1, indexAtDepth |-> Nil]

\* defendsParent(claim, parent): false without a parent; otherwise the claim
\* is two levels below the parent and its position relative to the parent has
\* index 2 or 3
DefendsParent(v, claim, parent) ==
  IF parent = NoParent THEN RBool(FALSE)
  ELSE IF claim.depth # parent.depth + 2 THEN RBool(FALSE)
  ELSE ThenPos(RelativeToAncestorAtDepth(v, claim, parent.depth), LAMBDA rel :
         RBool(rel.indexAtDepth \in {2, 3}))

\* a duplicate test that compares the whole claim, identity fields included
IsDuplicate_WholeClaim(existingClaims, claim) ==
  RBool(\E i \in 1..Len(existingClaims) : existingClaims[i] = claim)

\* isDuplicate(claim, existingClaims): existingClaims holds a claim with the
\* same (position, value) pair
IsDuplicate(existingClaims, claim) ==
  RBool(\E i \in 1..Len(existingClaims) :
          /\ existingClaims[i].Position = claim.Position
          /\ existingClaims[i].Value = claim.Value)

\* ============================================================ state machine
\* ver  : the revision of position.go the process runs
\* pos  : the Position value the caller currently holds
\* last : the most recent call: operation, receiver, arguments and result
\* navigated : pos is the root, or was built by NewPositionFromGIndex(x) with
\*        x >= 1, and since then only Attack, Defend and
\*        RelativeToAncestorAtDepth produced it
\* claims : the claim set of the game, in the order of the appends
RootPosition == [depth |-> 0, indexAtDepth |-> 0]

\* depths close to the largest representable one (revisions U and D)
NearMaxDepths == {MaxUint - 1, MaxUint}

\* the positions the caller goes on with
InBounds(q) ==
  \/ q = ZeroPosition
  \/ /\ q.indexAtDepth # Nil
     /\ \/ q.depth \in 0..MaxDepth /\ q.indexAtDepth <= (2 ^ q.depth) + 1
        \/ q.depth \in NearMaxDepths /\ q.indexAtDepth <= 3

GIndexes == 0 .. ((2 ^ (MaxDepth + 1)) - 1)

\* depth arguments: uint64 / Depth in U and D; in I maxDepth is an int
DepthArgs(v) ==
  IF v = "I" THEN 0 .. (MaxDepth + 1) \cup {MaxInt}
  ELSE 0 .. (MaxDepth + 1) \cup NearMaxDepths

NewDepthArgs(v) ==
  IF v = "I" THEN (-1) .. MaxDepth \cup {MaxInt}
  ELSE 0 .. MaxDepth \cup NearMaxDepths

NewIndexArgs(d) ==
  IF d \in 0..MaxDepth THEN {Nil, 0, 1, (2 ^ d) - 1, 2 ^ d, (2 ^ d) + 1}
  ELSE {Nil} \cup 0..3

\* parent positions offered to RightOf and DefendsParent
ParentArgs ==
  {[depth |-> d, indexAtDepth |-> i] : d \in 0..2, i \in 0..3} \cup {NoParent}

\* whether the Position a call returned comes from navigation alone
NavigatedAfter(op, arg, out) ==
  IF out.kind = "Position"
       /\ op \in {"Attack", "Defend", "RelativeToAncestorAtDepth"}
  THEN navigated
  ELSE out.kind = "Position" /\ op = "NewPositionFromGIndex" /\ arg >= 1

\* a call returns: record it; the caller keeps a returned Position (the zero
\* Position that comes with an error included), a panic leaves pos as it was
Return(op, arg, other, out) ==
  LET kept == out.kind \in {"Position", "Error"} /\ InBounds(out.pos)
  IN /\ last' = [op |-> op, in |-> pos, arg |-> arg, other |-> other, out |-> out]
     /\ pos' = IF kept THEN out.pos ELSE pos
     /\ navigated' = IF kept THEN NavigatedAfter(op, arg, out) ELSE navigated
     /\ UNCHANGED <<ver, claims>>

\* a call whose result is not a Position
Observe(op, arg, other, out) ==
  /\ last' = [op |-> op, in |-> pos, arg |-> arg, other |-> other, out |-> out]
  /\ UNCHANGED <<ver, pos, navigated, claims>>

Init ==
  /\ ver \in Versions
  /\ pos = RootPosition
  /\ last = [op |-> "init", in |-> RootPosition, arg |-> 0,
             other |-> ZeroPosition, out |-> RNone]
  /\ navigated = TRUE
  /\ claims = << >>

CallNewPosition ==
  \E d \in NewDepthArgs(ver) : \E i \in NewIndexArgs(d) :
    Return("NewPosition", d, [depth |-> d, indexAtDepth |-> i],
           NewPosition(ver, d, i))

CallNewPositionFromGIndex ==
  \E x \in GIndexes :
    Return("NewPositionFromGIndex", x, ZeroPosition, NewPositionFromGIndex(ver, x))

CallMoveRight ==
  /\ ver \in {"U", "D"}
  /\ Return("MoveRight", 0, ZeroPosition, MoveRight(ver, pos))

CallRelativeToAncestorAtDepth ==
  \E ancestor \in DepthArgs("U") :
    Return("RelativeToAncestorAtDepth", ancestor, ZeroPosition,
           RelativeToAncestorAtDepth(ver, pos, ancestor))

CallAttack == Return("Attack", 0, ZeroPosition, Attack(ver, pos))

CallDefend == Return("Defend", 0, ZeroPosition, Defend(ver, pos))

CallTraceIndex ==
  \E maxDepth \in DepthArgs(ver) :
    Observe("TraceIndex", maxDepth, ZeroPosition, TraceIndex(ver, pos, maxDepth))

CallToGIndex == Observe("ToGIndex", 0, ZeroPosition, ToGIndex(ver, pos))

CallIsRootPosition ==
  Observe("IsRootPosition", 0, ZeroPosition, IsRootPosition(ver, pos))

CallRightOf ==
  \E parent \in ParentArgs \ {NoParent} :
    Observe("RightOf", 0, parent, RightOf(ver, pos, parent))

CallRelativeMove ==
  \E n \in 1..Len(tests) :
    Observe("RelativeMove", n, ZeroPosition, RelativeMove(ver, tests[n], pos))

CallDefendsParent ==
  \E parent \in ParentArgs :
    Observe("DefendsParent", 0, parent, DefendsParent(ver, pos, parent))

Next ==
  \/ CallNewPosition
  \/ CallNewPositionFromGIndex
  \/ CallMoveRight
  \/ CallRelativeToAncestorAtDepth
  \/ CallAttack
  \/ CallDefend
  \/ CallTraceIndex
  \/ CallToGIndex
  \/ CallIsRootPosition
  \/ CallRightOf
  \/ CallRelativeMove
  \/ CallDefendsParent

Spec == Init /\ [][Next]_vars

\* ---------------------------------------------------------- the claim set
\* generalized indexes and values of the claims of a game
ClaimGIndexes == {1, 2}

ClaimValues == {"0x077a", "0x0364"}

\* types.Claim{ClaimData{Value, Position}, ContractIndex, ParentContractIndex}
Claim(position, value, contractIndex, parentContractIndex) ==
  [Position |-> position, Value |-> value,
   ContractIndex |-> contractIndex, ParentContractIndex |-> parentContractIndex]

\* a claim is appended to the claim set; its identity is its place in the set
AppendClaim ==
  /\ Len(claims) < MaxClaims
  /\ \E g \in ClaimGIndexes : \E v \in ClaimValues :
       \E parent \in 0..Len(claims) :
         LET r == NewPositionFromGIndex(ver, g)
         IN /\ r.kind = "Position"
            /\ claims' = Append(claims, Claim(r.pos, v, Len(claims), parent))
            /\ last' = [op |-> "Append", in |-> r.pos, arg |-> Len(claims),
                        other |-> ZeroPosition, out |-> RNone]
  /\ UNCHANGED <<ver, pos, navigated>>

\* IsDuplicate is asked about a claim of any identity and parent
CallIsDuplicate ==
  \E g \in ClaimGIndexes : \E v \in ClaimValues :
    \E contractIndex \in 0..MaxClaims : \E parent \in 0..1 :
      LET r == NewPositionFromGIndex(ver, g)
          c == Claim(r.pos, v, contractIndex, parent)
      IN /\ r.kind = "Position"
         /\ last' = [op |-> "IsDuplicate", in |-> r.pos, arg |-> contractIndex,
                     other |-> c, out |-> IsDuplicate(claims, c)]
         /\ UNCHANGED <<ver, pos, navigated, claims>>

NextGame ==
  \/ AppendClaim
  \/ CallIsDuplicate

SpecGame == Init /\ [][NextGame]_vars

\* ================================================================ properties
\* the receiver of the last call carries an index (it is not the zero value)
HasIndex(q) == q.indexAtDepth # Nil

\* the deepest level the depth type of a revision can represent
MaxRepresentableDepth(v) == IF v = "I" THEN MaxInt ELSE MaxUint

\* the low n bits of i, for the indexes the model enumerates
LowBits(i, n) == IF n > MaxDepth + 2 THEN i ELSE i % (2 ^ n)

\* the receiver's generalized index can be allocated
Feasible(q) == HasIndex(q) /\ q.depth <= MaxDepth

\* C1: round trip -- for every generalized index x >= 1, values of a machine
\* word and wider included, NewPositionFromGIndex(x).ToGIndex() = x.
C1_RoundTrip ==
  (last.op = "NewPositionFromGIndex" /\ last.arg >= 1)
    => /\ last.out.kind = "Position"
       /\ ToGIndex(ver, last.out.pos) = RInt(last.arg)

\* C1 witness: a generalized index wider than a machine word went round.
C1_Witness ==
  /\ last.op = "NewPositionFromGIndex"
  /\ last.arg >= WordMod
  /\ last.out.kind = "Position"
  /\ last.out.pos.depth = WordBits
  /\ ToGIndex(ver, last.out.pos) = RInt(last.arg)

\* C2: for every position p and ancestorDepth <= p.depth,
\* RelativeToAncestorAtDepth(ancestorDepth) returns, without error, the
\* position of depth p.depth - ancestorDepth and index
\* p.indexAtDepth mod 2^(p.depth - ancestorDepth).
C2_RelativeToAncestor ==
  (last.op = "RelativeToAncestorAtDepth" /\ HasIndex(last.in)
     /\ last.arg <= last.in.depth)
    => last.out = RPos(last.in.depth - last.arg,
                       LowBits(last.in.indexAtDepth, last.in.depth - last.arg))

\* C3: for every position p and maxDepth >= p.depth, TraceIndex(maxDepth) is
\* (p.indexAtDepth << rd) | (2^rd - 1) with rd = maxDepth - p.depth.
C3_TraceIndex ==
  (last.op = "TraceIndex" /\ HasIndex(last.in)
     /\ last.arg >= last.in.depth /\ last.arg - last.in.depth <= AllocLimit)
    => LET rd == last.arg - last.in.depth
       IN last.out = RInt((last.in.indexAtDepth * (2 ^ rd)) + ((2 ^ rd) - 1))

\* C4: for every position p below the maximum representable depth, Attack()
\* returns the left child (depth + 1, 2 * indexAtDepth), whose generalized
\* index is twice that of p.
C4_Attack ==
  (last.op = "Attack" /\ HasIndex(last.in)
     /\ last.in.depth < MaxRepresentableDepth(ver))
    => /\ last.out = RPos(last.in.depth + 1, 2 * last.in.indexAtDepth)
       /\ Feasible(last.in)
            => /\ ToGIndex(ver, last.in).kind = "Int"
               /\ ToGIndex(ver, last.out.pos)
                    = RInt(2 * ToGIndex(ver, last.in).val)

\* C4 witness: an attack from a node that is not the leftmost of its level.
C4_Witness ==
  /\ last.op = "Attack"
  /\ last.in.depth >= 2
  /\ last.in.indexAtDepth >= 3
  /\ last.out = RPos(last.in.depth + 1, 2 * last.in.indexAtDepth)
  /\ ToGIndex(ver, last.out.pos).kind = "Int"

\* C5 as stated: for every non-root position p (depth >= 1), Defend() returns
\* depth p.depth + 1 and index 2 * (2 * floor(p.indexAtDepth / 2) + 1).
C5_DefendAnyDepth ==
  (last.op = "Defend" /\ HasIndex(last.in) /\ last.in.depth >= 1)
    => last.out = RPos(last.in.depth + 1,
                       2 * ((2 * (last.in.indexAtDepth \div 2)) + 1))

\* C5 amended: for every position p at depth >= 1 and below the maximum
\* representable depth, Defend() returns depth p.depth + 1 and index
\* 2 * (2 * floor(p.indexAtDepth / 2) + 1); for a well-formed p of
\* generalized index g the result has generalized index 2 * (g | 1), so
\* 2, 4, 6, ... 14 yield 6, 10, 14, ... 30.
C5_Defend ==
  (last.op = "Defend" /\ HasIndex(last.in) /\ last.in.depth >= 1
     /\ last.in.depth < MaxRepresentableDepth(ver))
    => /\ last.out = RPos(last.in.depth + 1,
                          2 * ((2 * (last.in.indexAtDepth \div 2)) + 1))
       /\ (Feasible(last.in) /\ last.in.indexAtDepth < 2 ^ last.in.depth)
            => LET g == ToGIndex(ver, last.in)
               IN /\ g.kind = "Int"
                  /\ ToGIndex(ver, last.out.pos)
                       = RInt(2 * (g.val + 1 - (g.val % 2)))

\* C5 witness: defending generalized index 6 gave generalized index 14.
C5_Witness ==
  /\ last.op = "Defend"
  /\ last.in = [depth |-> 2, indexAtDepth |-> 2]
  /\ last.out = RPos(3, 6)
  /\ ToGIndex(ver, last.out.pos) = RInt(14)

\* C6: for every position p and ancestorDepth > p.depth,
\* RelativeToAncestorAtDepth(ancestorDepth) returns the error
\* ErrPositionDepthTooSmall: an error value, neither a panic nor a position.
C6_DepthTooSmall ==
  (last.op = "RelativeToAncestorAtDepth" /\ last.arg > last.in.depth)
    => last.out = ErrPositionDepthTooSmall

\* C6 witness: a position below the root was asked for a deeper ancestor.
C6_Witness ==
  /\ last.op = "RelativeToAncestorAtDepth"
  /\ last.in.depth >= 1
  /\ last.arg = last.in.depth + 1
  /\ last.out = ErrPositionDepthTooSmall

\* C7: for any starting position p and each move sequence m of
\* TestRelativeMoves, m(p).RelativeToAncestorAtDepth(p.depth) succeeds and has
\* the generalized index of m applied to the root position.
C7_RelativeMoves ==
  (last.op = "RelativeMove" /\ Feasible(last.in))
    => /\ last.out.kind = "Int"
       /\ last.out = ExpectedRelativeMove(ver, tests[last.arg])

\* C8: navigation never wraps the depth -- Defend() on a position at depth 0
\* and Attack() on a position at the maximum representable depth fail (panic
\* or error) instead of returning a position.
C8_NoSilentWrap ==
  /\ (last.op = "Defend" /\ last.in.depth = 0)
       => last.out.kind \in {"Panic", "Error"}
  /\ (last.op = "Attack" /\ last.in.depth = MaxRepresentableDepth(ver))
       => last.out.kind \in {"Panic", "Error"}

\* C9: for every position p and maxDepth < p.depth, TraceIndex(maxDepth)
\* fails instead of returning an index.
C9_TraceIndexFails ==
  (last.op = "TraceIndex" /\ last.arg < last.in.depth)
    => last.out.kind \in {"Panic", "Error"}

\* C10: DefendsParent(claim, parent) is true iff the claim is two levels below
\* the parent and the low two bits of its index are 2 or 3, and false for a
\* claim without a parent; for parent gindex 1 the claims at gindex 6 and 7
\* defend and those at 2, 3, 4, 5 do not.
C10_DefendsParent ==
  (last.op = "DefendsParent" /\ HasIndex(last.in))
    => last.out = RBool(/\ last.other # NoParent
                        /\ last.in.depth = last.other.depth + 2
                        /\ LowBits(last.in.indexAtDepth, 2) \in {2, 3})

\* 0 <= indexAtDepth < 2^depth (an index the model enumerates at a depth
\* beyond AllocLimit is always below 2^depth)
WellFormed(q) ==
  /\ HasIndex(q)
  /\ q.indexAtDepth >= 0
  /\ q.depth >= 0
  /\ q.depth > AllocLimit \/ q.indexAtDepth < 2 ^ q.depth

\* C12: NewPositionFromGIndex(x) returns for every x >= 0; for x >= 1 the
\* depth is floor(log2(x)) and the index x - 2^depth; for x = 0 it returns
\* depth 0 and index 0, for which IsRootPosition() is true.
C12_FromGIndex ==
  (last.op = "NewPositionFromGIndex")
    => IF last.arg = 0
       THEN /\ last.out = RPos(0, 0)
            /\ IsRootPosition(ver, last.out.pos) = RBool(TRUE)
       ELSE \E d \in 0..MaxDepth :
              /\ 2 ^ d <= last.arg
              /\ last.arg < 2 ^ (d + 1)
              /\ last.out = RPos(d, last.arg - (2 ^ d))

\* C12 witness: generalized index 5 gave depth 2 and index 1.
C12_Witness ==
  /\ last.op = "NewPositionFromGIndex"
  /\ last.arg = 5
  /\ last.out = RPos(2, 1)

\* C13 as stated: for every non-root position p (depth >= 1, below the
\* maximum representable depth) Defend(p) is at depth p.depth + 1 with an
\* index strictly greater than that of Attack(p).
C13_DefendRightOfAttack ==
  (last.op = "Defend" /\ HasIndex(last.in) /\ last.in.depth >= 1
     /\ last.in.depth < MaxRepresentableDepth(ver))
    => /\ last.out.kind = "Position"
       /\ last.out.pos.depth = last.in.depth + 1
       /\ Attack(ver, last.in).kind = "Position"
       /\ last.out.pos.indexAtDepth > Attack(ver, last.in).pos.indexAtDepth

\* C13 amended: for every position p at depth >= 1 and below the maximum
\* representable depth, Defend(p) is at depth p.depth + 1; when
\* p.indexAtDepth is even its index is that of Attack(p) plus 2, when
\* p.indexAtDepth is odd Defend(p) equals Attack(p).
C13_DefendVsAttack ==
  (last.op = "Defend" /\ HasIndex(last.in) /\ last.in.depth >= 1
     /\ last.in.depth < MaxRepresentableDepth(ver))
    => LET a == Attack(ver, last.in)
       IN /\ last.out.kind = "Position"
          /\ a.kind = "Position"
          /\ last.out.pos.depth = last.in.depth + 1
          /\ a.pos.depth = last.in.depth + 1
          /\ last.out.pos.indexAtDepth
               = a.pos.indexAtDepth
                   + (IF last.in.indexAtDepth % 2 = 0 THEN 2 ELSE 0)

\* C13 witness: a defence from a left child landed two to the right of the
\* attack from the same node.
C13_Witness ==
  /\ last.op = "Defend"
  /\ last.in.depth >= 1
  /\ HasIndex(last.in)
  /\ last.in.indexAtDepth % 2 = 0
  /\ last.out.kind = "Position"
  /\ last.out.pos.indexAtDepth = Attack(ver, last.in).pos.indexAtDepth + 2

\* C14: for every Position value, the zero value without an index included,
\* IsRootPosition() returns the boolean Depth() = 0 /\ IndexAtDepth() = 0,
\* IndexAtDepth() being 0 when there is no index; it never fails.
C14_IsRootPosition ==
  (last.op = "IsRootPosition")
    => last.out = RBool(/\ last.in.depth = 0
                        /\ (IF HasIndex(last.in)
                            THEN last.in.indexAtDepth ELSE 0) = 0)

\* C15: every position reached from the root, or from
\* NewPositionFromGIndex(x) with x >= 1, by successful Attack, Defend and
\* RelativeToAncestorAtDepth calls satisfies 0 <= indexAtDepth < 2^depth.
C15_WellFormed == navigated => WellFormed(pos)

\* the case of C16: a well-formed parent P (last.other) and a well-formed
\* claim position C (last.in) two levels below it, inside P's subtree
C16_Case ==
  /\ last.op = "RightOf"
  /\ WellFormed(last.other)
  /\ WellFormed(last.in)
  /\ last.in.depth = last.other.depth + 2
  /\ last.in.indexAtDepth \div 4 = last.other.indexAtDepth

\* C16 as stated: in that case C.RightOf(P) is true exactly when
\* C.RelativeToAncestorAtDepth(P.depth) has indexAtDepth 2 or 3.
C16_RightOfDecides ==
  C16_Case
    => LET rel == RelativeToAncestorAtDepth(ver, last.in, last.other.depth)
       IN /\ last.out.kind = "Bool"
          /\ (last.out.val = 1)
               <=> (rel.kind = "Position" /\ rel.pos.indexAtDepth \in {2, 3})

\* C16 amended: in that case, when P.indexAtDepth = 0, C.RightOf(P) is true
\* exactly when C.indexAtDepth (C's index relative to P) is 2 or 3; when
\* P.indexAtDepth >= 1, C.RightOf(P) is true for every such C.
C16_RightOfLeftmost ==
  C16_Case
    => last.out = RBool(\/ last.other.indexAtDepth >= 1
                        \/ last.in.indexAtDepth \in {2, 3})

\* C16 witness: gindex 6 is right of the root.
C16_Witness ==
  /\ C16_Case
  /\ last.other = RootPosition
  /\ last.in = [depth |-> 2, indexAtDepth |-> 2]
  /\ last.out = RBool(TRUE)

\* the (position, value) pairs of the claim set
ClaimPairs == {<<claims[i].Position, claims[i].Value>> : i \in 1..Len(claims)}

\* C11: after any sequence of appends IsDuplicate(c) is true iff the claim set
\* holds a claim with c's (position, value) pair, whatever c's identity and
\* parent identity; it is false when c differs from every stored claim in
\* position or in value.
C11_IsDuplicate ==
  (last.op = "IsDuplicate")
    => last.out = RBool(<<last.other.Position, last.other.Value>> \in ClaimPairs)

\* C11 witness: a claim was found to be a duplicate of a stored claim of
\* another identity and parent, in a set that also holds a claim it differs
\* from.
C11_Witness ==
  /\ last.op = "IsDuplicate"
  /\ last.out = RBool(TRUE)
  /\ Len(claims) = 2
  /\ \E i, j \in 1..Len(claims) :
       /\ claims[i].Position = last.other.Position
       /\ claims[i].Value = last.other.Value
       /\ claims[i].ContractIndex # last.other.ContractIndex
       /\ claims[i].ParentContractIndex # last.other.ParentContractIndex
       /\ claims[j].Position # last.other.Position

====
